---------------------------- MODULE Spec2Model ----------------------------
(***************************************************************************)
(* Model of the data hook of the Bitcoin node map (src/src/App.tsx, the    *)
(* first useBitnodesData and the App component that consumes it).          *)
(*                                                                         *)
(* Conventions.                                                            *)
(*  - A JavaScript value is a tagged record (Undefined, Null, NaN, Num,    *)
(*    Str, Arr).  A string's content is a sequence of tokens, so that the  *)
(*    empty string is <<>> and String()/Number() and JSON.stringify/parse  *)
(*    are real conversions.                                                *)
(*  - A latitude or longitude is an integer counting 1/10000 degree        *)
(*    (40.7128 is 407128).  The sample coordinates avoid rounding ties.    *)
(*  - A list of peers is run-length encoded: a sequence of groups          *)
(*    [node, n] standing for n consecutive equal entries, so that a        *)
(*    snapshot of more than MAX_NODES_FOR_MARKERS records can be checked.   *)
(*    One forEach iteration per record becomes one fold step per group     *)
(*    that adds n where the code adds 1.                                   *)
(*  - A non-integer number (an average, the HHI) is the exact fraction     *)
(*    [num, den] of what the code computes in floating point.              *)
(***************************************************************************)
EXTENDS Integers, Sequences, FiniteSets, TLC

VARIABLES
    localStorage,     \* the origin's localStorage: key -> Null or a string
    clock,            \* Date.now(), in ms
    pc,               \* "unloaded" | "mounted" | "fetching" | "done" | "rejected"
    heatmapPoints,    \* useState<HeatmapPoint[]>
    individualNodes,  \* useState<ProcessedNode[]> (run-length encoded)
    loading,          \* useState<boolean>
    error,            \* useState<string | null>
    maxIntensity,     \* useState<number>
    analytics,        \* useState<{...}>
    loads,            \* history: number of page loads so far
    requests,         \* history: fetch() calls issued by the current invocation
    invoked,          \* history: what the current invocation read (now, lastFetch, lastData)
    response,         \* history: what the fetch of the current invocation settled with
    tampered,         \* history: localStorage was written by something else than the task
    writer,           \* history: key -> the load whose task wrote it last (0: none)
    currentZoom,      \* App: useState<number>(initialZoom)
    inFlight,         \* history: tasks of the current page suspended at the fetch
    prior             \* history: the last run through the try block of an earlier load

vars == <<localStorage, clock, pc, heatmapPoints, individualNodes, loading, error,
          maxIntensity, analytics, loads, requests, invoked, response, tampered, writer,
          currentZoom, inFlight, prior>>

-----------------------------------------------------------------------------
(* Program constants *)

AGGREGATION_PRECISION == 1
ZOOM_THRESHOLD == 9
MAX_NODES_FOR_MARKERS == 10000
LAST_FETCH_KEY == "bitnodes_last_fetch"
LAST_DATA_KEY == "bitnodes_last_data"
CACHE_TTL_MS == 600000
INITIAL_MAX_INTENSITY == 50
SECONDS_PER_DAY == 86400
initialZoom == 3

-----------------------------------------------------------------------------
(* JavaScript values *)

Undefined == [t |-> "undefined"]
Null == [t |-> "null"]
NaN == [t |-> "NaN"]
Num(n) == [t |-> "number", v |-> n]
Str(s) == [t |-> "string", v |-> s]
Arr(a) == [t |-> "array", v |-> a]

\* typeof x === "number"
TypeofNumber(x) == x.t \in {"number", "NaN"}

\* isNaN(x) for x of type number
IsNaN(x) == x.t = "NaN"

\* Array.isArray(x)
IsArray(x) == x.t = "array"

\* if (x): ToBoolean
Truthy(x) ==
    CASE x.t = "number" -> x.v # 0
      [] x.t = "string" -> x.v # <<>>
      [] x.t = "array" -> TRUE
      [] OTHER -> FALSE

\* a[i] with a zero-based index: undefined past the end
Index(a, i) == IF i + 1 <= Len(a.v) THEN a.v[i + 1] ELSE Undefined

Max(a, b) == IF a >= b THEN a ELSE b
Min(a, b) == IF a <= b THEN a ELSE b

RECURSIVE Pow10(_)
Pow10(k) == IF k = 0 THEN 1 ELSE 10 * Pow10(k - 1)

-----------------------------------------------------------------------------
(* String(n) and Number(s) for the timestamp key *)

DigitChars == <<"0", "1", "2", "3", "4", "5", "6", "7", "8", "9">>

RECURSIVE Digits(_)
Digits(n) ==
    IF n < 10 THEN <<DigitChars[n + 1]>>
    ELSE Append(Digits(n \div 10), DigitChars[(n % 10) + 1])

\* String(Date.now())
String(n) == Str(Digits(n))

DigitValue(c) == (CHOOSE i \in DOMAIN DigitChars : DigitChars[i] = c) - 1

IsDigits(s) == \A i \in DOMAIN s : \E j \in DOMAIN DigitChars : DigitChars[j] = s[i]

RECURSIVE DigitsValue(_)
DigitsValue(s) ==
    IF s = <<>> THEN 0
    ELSE 10 * DigitsValue(SubSeq(s, 1, Len(s) - 1)) + DigitValue(s[Len(s)])

\* Number(x): null and "" give 0, a decimal string its value, anything else NaN
Number(x) ==
    CASE x.t = "null" -> Num(0)
      [] x.t = "number" -> x
      [] x.t = "string" -> IF IsDigits(x.v) THEN Num(DigitsValue(x.v)) ELSE NaN
      [] OTHER -> NaN

-----------------------------------------------------------------------------
(* JSON.stringify and JSON.parse for the statistics key.  The text of an   *)
(* object is the token "json" followed by its members, in key order; an   *)
(* optional member the object does not have (undefined) is left out.       *)

AnalyticsKeys == <<"totalNodes", "uniqueCountries", "topUserAgents", "topOrganizations",
                   "protocolVersions", "averageUptime", "decentralizationScore">>

RECURSIVE Members(_, _)
Members(obj, keys) ==
    IF keys = <<>> THEN <<>>
    ELSE LET k == keys[1]
             rest == Members(obj, Tail(keys))
         IN IF k \in DOMAIN obj THEN <<<<k, obj[k]>>>> \o rest ELSE rest

JSONstringify(obj) == Str(<<"json", Members(obj, AnalyticsKeys)>>)

WellFormedJSON(s) == s.t = "string" /\ Len(s.v) = 2 /\ s.v[1] = "json"

\* JSON.parse of a well-formed text (it throws a SyntaxError on any other)
JSONparse(s) ==
    LET ms == s.v[2]
    IN [k \in {ms[i][1] : i \in DOMAIN ms} |->
            ms[CHOOSE i \in DOMAIN ms : ms[i][1] = k][2]]

-----------------------------------------------------------------------------
(* Run-length encoded lists *)

RECURSIVE ListLen(_)
ListLen(l) == IF l = <<>> THEN 0 ELSE l[1].n + ListLen(Tail(l))

\* l.slice(0, cap)
RECURSIVE Slice(_, _)
Slice(l, cap) ==
    IF l = <<>> \/ cap <= 0 THEN <<>>
    ELSE IF l[1].n >= cap THEN <<[l[1] EXCEPT !.n = cap]>>
         ELSE <<l[1]>> \o Slice(Tail(l), cap - l[1].n)

\* list.push(x), n times
Push(l, x, n) ==
    IF l # <<>> /\ l[Len(l)].node = x
    THEN [l EXCEPT ![Len(l)].n = @ + n]
    ELSE Append(l, [node |-> x, n |-> n])

-----------------------------------------------------------------------------
(* Map<K, number> in insertion order: a sequence of [key, count] *)

HasKey(m, k) == \E i \in DOMAIN m : m[i].key = k

KeyIndex(m, k) == CHOOSE i \in DOMAIN m : m[i].key = k

\* m.get(k) || 0
GetOrZero(m, k) == IF HasKey(m, k) THEN m[KeyIndex(m, k)].count ELSE 0

\* m.set(k, (m.get(k) || 0) + 1), n times
Increment(m, k, n) ==
    IF HasKey(m, k)
    THEN [m EXCEPT ![KeyIndex(m, k)].count = @ + n]
    ELSE Append(m, [key |-> k, count |-> n])

\* variant: an entry is placed before the entries of equal count
RECURSIVE InsertDesc_TiesReversed(_, _)
InsertDesc_TiesReversed(sorted, e) ==
    IF sorted = <<>> THEN <<e>>
    ELSE IF sorted[1].count > e.count
         THEN <<sorted[1]>> \o InsertDesc_TiesReversed(Tail(sorted), e)
         ELSE <<e>> \o sorted

\* Array.prototype.sort((a, b) => b.count - a.count): stable, descending
RECURSIVE InsertDesc(_, _)
InsertDesc(sorted, e) ==
    IF sorted = <<>> THEN <<e>>
    ELSE IF sorted[1].count >= e.count
         THEN <<sorted[1]>> \o InsertDesc(Tail(sorted), e)
         ELSE <<e>> \o sorted

RECURSIVE SortDesc(_)
SortDesc(s) ==
    IF s = <<>> THEN <<>>
    ELSE InsertDesc(SortDesc(SubSeq(s, 1, Len(s) - 1)), s[Len(s)])

\* s.slice(0, k) of a plain sequence
Take(s, k) == SubSeq(s, 1, Min(k, Len(s)))

-----------------------------------------------------------------------------
(* Number.prototype.toFixed and parseFloat on coordinates.  The text of a  *)
(* fixed-point number is its sign and its magnitude, rounded to `digits`   *)
(* decimals and kept in the coordinate unit: (-0.04).toFixed(1) is "-0.0", *)
(* [neg |-> TRUE, mag |-> 0].                                              *)

Abs(x) == IF x < 0 THEN -x ELSE x

ToFixed(x, digits) ==
    LET step == Pow10(4 - digits)
    IN [neg |-> x < 0, mag |-> ((Abs(x) + step \div 2) \div step) * step]

\* parseFloat("-0.0") is -0, which equals 0
ParseFloat(s) == IF s.neg THEN -s.mag ELSE s.mag

-----------------------------------------------------------------------------
(* The fixed fallback data *)

mockHeatmapPoints ==
    << <<407000, -740000, 25>>, <<515000, -1000, 18>>,
       <<357000, 1397000, 12>>, <<-339000, 1512000, 9>> >>

mockIndividualNodes ==
    << [node |-> [lat |-> 407128, lon |-> -740060,
                  userAgent |-> Str(<<"/Mock:1.0/">>), country |-> Str(<<"US">>)], n |-> 1],
       [node |-> [lat |-> 515074, lon |-> -1278,
                  userAgent |-> Str(<<"/Mock:1.0/">>), country |-> Str(<<"GB">>)], n |-> 1] >>

zeroAnalytics == [totalNodes |-> 0, uniqueCountries |-> 0]

-----------------------------------------------------------------------------
(* The aggregation of a snapshot: `nodes` is Object.entries(data.nodes),   *)
(* a sequence of groups [data, n]: n consecutive entries with the same     *)
(* value `data`.                                                           *)

\* variant: the length test of the data model, "more than 13 elements"
IsValidRecord_MoreThan13(nodeData) ==
    /\ IsArray(nodeData)
    /\ Len(nodeData.v) > 13
    /\ TypeofNumber(Index(nodeData, 8))
    /\ TypeofNumber(Index(nodeData, 9))
    /\ ~IsNaN(Index(nodeData, 8))
    /\ ~IsNaN(Index(nodeData, 9))

IsValidRecord(nodeData) ==
    /\ IsArray(nodeData)
    /\ Len(nodeData.v) > 12
    /\ TypeofNumber(Index(nodeData, 8))
    /\ TypeofNumber(Index(nodeData, 9))
    /\ ~IsNaN(Index(nodeData, 8))
    /\ ~IsNaN(Index(nodeData, 9))

MakeNode(nodeData) ==
    [lat |-> Index(nodeData, 8).v,
     lon |-> Index(nodeData, 9).v,
     userAgent |-> Index(nodeData, 1),
     country |-> Index(nodeData, 7),
     protocolVersion |-> Index(nodeData, 0),
     organization |-> Index(nodeData, 12),
     connectedSince |-> Index(nodeData, 2)]

EmptyScan ==
    [processedNodes |-> <<>>, countrySet |-> {}, userAgentCounts |-> <<>>,
     orgCounts |-> <<>>, versionCounts |-> <<>>, totalUptime |-> 0, uptimeCount |-> 0]

\* the body of nodes.forEach, for a group of n equal entries; totalUptime is in ms
ScanStep(acc, g, now) ==
    IF ~IsValidRecord(g.data) THEN acc
    ELSE LET node == MakeNode(g.data)
         IN [processedNodes |-> Push(acc.processedNodes, node, g.n),
             countrySet |-> IF Truthy(node.country)
                            THEN acc.countrySet \cup {node.country}
                            ELSE acc.countrySet,
             userAgentCounts |-> IF Truthy(node.userAgent)
                                 THEN Increment(acc.userAgentCounts, node.userAgent, g.n)
                                 ELSE acc.userAgentCounts,
             orgCounts |-> IF Truthy(node.organization)
                           THEN Increment(acc.orgCounts, node.organization, g.n)
                           ELSE acc.orgCounts,
             versionCounts |-> IF Truthy(node.protocolVersion)
                               THEN Increment(acc.versionCounts, node.protocolVersion, g.n)
                               ELSE acc.versionCounts,
             totalUptime |-> IF Truthy(node.connectedSince)
                             THEN acc.totalUptime
                                  + g.n * (now - 1000 * node.connectedSince.v)
                             ELSE acc.totalUptime,
             uptimeCount |-> IF Truthy(node.connectedSince)
                             THEN acc.uptimeCount + g.n
                             ELSE acc.uptimeCount]

RECURSIVE Scan(_, _)
Scan(nodes, now) ==
    IF nodes = <<>> THEN EmptyScan
    ELSE ScanStep(Scan(SubSeq(nodes, 1, Len(nodes) - 1), now), nodes[Len(nodes)], now)

-----------------------------------------------------------------------------
(* The heatmap aggregation: aggregationMap in insertion order, a sequence  *)
(* of [key, lat, lon, count], and currentMaxIntensity.                     *)

AggregationKey(node) ==
    <<ToFixed(node.lat, AGGREGATION_PRECISION), ToFixed(node.lon, AGGREGATION_PRECISION)>>

EmptyAggregation == [map |-> <<>>, currentMaxIntensity |-> 0]

\* variant: a cell that exists is not incremented
AggregateStep_NoIncrement(acc, g) ==
    LET key == <<ToFixed(g.node.lat, AGGREGATION_PRECISION),
                 ToFixed(g.node.lon, AGGREGATION_PRECISION)>>
    IN IF HasKey(acc.map, key)
       THEN acc
       ELSE [map |-> Append(acc.map,
                            [key |-> key,
                             lat |-> ParseFloat(ToFixed(g.node.lat, AGGREGATION_PRECISION)),
                             lon |-> ParseFloat(ToFixed(g.node.lon, AGGREGATION_PRECISION)),
                             count |-> g.n]),
             currentMaxIntensity |-> Max(acc.currentMaxIntensity, g.n)]

\* the body of processedNodes.forEach, for a group of n equal nodes
AggregateStep(acc, g) ==
    LET key == AggregationKey(g.node)
    IN IF HasKey(acc.map, key)
       THEN LET i == KeyIndex(acc.map, key)
            IN [map |-> [acc.map EXCEPT ![i].count = @ + g.n],
                currentMaxIntensity |->
                    Max(acc.currentMaxIntensity, acc.map[i].count + g.n)]
       ELSE [map |-> Append(acc.map,
                            [key |-> key,
                             lat |-> ParseFloat(ToFixed(g.node.lat, AGGREGATION_PRECISION)),
                             lon |-> ParseFloat(ToFixed(g.node.lon, AGGREGATION_PRECISION)),
                             count |-> g.n]),
             currentMaxIntensity |-> Max(acc.currentMaxIntensity, g.n)]

RECURSIVE Aggregate(_)
Aggregate(processedNodes) ==
    IF processedNodes = <<>> THEN EmptyAggregation
    ELSE AggregateStep(Aggregate(SubSeq(processedNodes, 1, Len(processedNodes) - 1)),
                       processedNodes[Len(processedNodes)])

\* Array.from(aggregationMap.values()).map((agg) => [agg.lat, agg.lon, agg.count])
AggregatedPoints(map) == [i \in DOMAIN map |-> <<map[i].lat, map[i].lon, map[i].count>>]

\* Math.ceil(x * 0.8): for 0 <= x <= 200000 the double product rounds up to the
\* same integer as the exact 4x/5
CeilTimes08(x) == (4 * x + 4) \div 5

\* variant: Math.floor in place of Math.ceil
CalculatedMax_Floor(currentMaxIntensity) == Max(1, (4 * currentMaxIntensity) \div 5)

CalculatedMax(currentMaxIntensity) == Max(1, CeilTimes08(currentMaxIntensity))

\* variant: the aggregated points are set as they are, empty or not
HeatmapOutput_AsAggregated(aggregatedPoints) == aggregatedPoints

\* what setHeatmapPoints receives
HeatmapOutput(aggregatedPoints) ==
    IF Len(aggregatedPoints) > 0 THEN aggregatedPoints ELSE mockHeatmapPoints

\* what the first setIndividualNodes receives
MarkerSlice(processedNodes) == Slice(processedNodes, MAX_NODES_FOR_MARKERS)

\* what the second setIndividualNodes receives: the value the render sees
MarkerOutput(processedNodes) ==
    IF ListLen(processedNodes) > 0 THEN processedNodes ELSE mockIndividualNodes

-----------------------------------------------------------------------------
(* The statistics *)

Frac(num, den) == [num |-> num, den |-> den]

TopAgents(userAgentCounts) ==
    Take(SortDesc([i \in DOMAIN userAgentCounts |->
                     [agent |-> userAgentCounts[i].key, count |-> userAgentCounts[i].count]]), 3)

TopOrgs(orgCounts) ==
    Take(SortDesc([i \in DOMAIN orgCounts |->
                     [org |-> orgCounts[i].key, count |-> orgCounts[i].count]]), 3)

ProtocolVersions(versionCounts) ==
    SortDesc([i \in DOMAIN versionCounts |->
                [version |-> versionCounts[i].key, count |-> versionCounts[i].count]])

\* the second pass over processedNodes that fills countryCounts
RECURSIVE CountryCounts(_)
CountryCounts(processedNodes) ==
    IF processedNodes = <<>> THEN <<>>
    ELSE LET before == CountryCounts(SubSeq(processedNodes, 1, Len(processedNodes) - 1))
             g == processedNodes[Len(processedNodes)]
         IN IF Truthy(g.node.country)
            THEN Increment(before, g.node.country, g.n)
            ELSE before

RECURSIVE SumSquares(_)
SumSquares(counts) ==
    IF counts = <<>> THEN 0
    ELSE counts[1].count * counts[1].count + SumSquares(Tail(counts))

\* variant: shares taken over the peers that have a country
Hhi_SharesOfLocated(countryCounts, totalNodes) ==
    LET RECURSIVE Located(_)
        Located(counts) ==
            IF counts = <<>> THEN 0 ELSE counts[1].count + Located(Tail(counts))
    IN IF countryCounts = <<>> THEN Frac(0, 1)
       ELSE Frac(SumSquares(countryCounts), Located(countryCounts) * Located(countryCounts))

\* variant: the sum of squares divided once, after the loop
Hhi_DividedOnce(countryCounts, totalNodes) ==
    Frac(SumSquares(countryCounts), totalNodes * totalNodes)

\* reduce((sum, count) => sum + Math.pow(count / totalNodes, 2), 0): nothing is
\* divided when there is no country
Hhi(countryCounts, totalNodes) ==
    IF countryCounts = <<>> THEN Frac(0, 1)
    ELSE Frac(SumSquares(countryCounts), totalNodes * totalNodes)

\* uptimeCount > 0 ? totalUptime / uptimeCount / 86400 : 0, with totalUptime in ms
AverageUptime(totalUptime, uptimeCount) ==
    IF uptimeCount > 0
    THEN [num |-> totalUptime, den |-> uptimeCount, msPerUnit |-> 1000 * SECONDS_PER_DAY]
    ELSE [num |-> 0, den |-> 1, msPerUnit |-> 1]

ProcessedAnalytics(scan) ==
    [totalNodes |-> ListLen(scan.processedNodes),
     uniqueCountries |-> Cardinality(scan.countrySet),
     topUserAgents |-> TopAgents(scan.userAgentCounts),
     topOrganizations |-> TopOrgs(scan.orgCounts),
     protocolVersions |-> ProtocolVersions(scan.versionCounts),
     averageUptime |-> AverageUptime(scan.totalUptime, scan.uptimeCount),
     decentralizationScore |->
         Hhi(CountryCounts(scan.processedNodes), ListLen(scan.processedNodes))]

-----------------------------------------------------------------------------
(* What the task commits *)

\* several sets of one state variable in one run of the task: the render that
\* follows sees the last
LastSet(values) == values[Len(values)]

\* variant: the uptimes measured against a fixed time, not the clock of the run
SuccessCommit_FixedClock(nodes, now) ==
    LET scan == Scan(nodes, 1000 * SECONDS_PER_DAY)
        agg == Aggregate(scan.processedNodes)
    IN [heatmapPoints |-> HeatmapOutput(AggregatedPoints(agg.map)),
        individualNodes |-> LastSet(<<MarkerSlice(scan.processedNodes),
                                      MarkerOutput(scan.processedNodes)>>),
        maxIntensity |-> CalculatedMax(agg.currentMaxIntensity),
        analytics |-> ProcessedAnalytics(scan),
        error |-> Null]

\* the state the try block has set when it reaches the cache write
SuccessCommit(nodes, now) ==
    LET scan == Scan(nodes, now)
        agg == Aggregate(scan.processedNodes)
    IN [heatmapPoints |-> HeatmapOutput(AggregatedPoints(agg.map)),
        individualNodes |-> LastSet(<<MarkerSlice(scan.processedNodes),
                                      MarkerOutput(scan.processedNodes)>>),
        maxIntensity |-> CalculatedMax(agg.currentMaxIntensity),
        analytics |-> ProcessedAnalytics(scan),
        error |-> Null]

\* a thrown value
Thrown(isError, message) == [isError |-> isError, message |-> message]

\* err instanceof Error ? err.message : "Unknown error"
ErrorMessage(err) == IF err.isError THEN Str(err.message) ELSE Str(<<"Unknown error">>)

\* variant: the catch block without setHeatmapPoints(mockHeatmapPoints)
CatchCommit_KeepsPoints(err) ==
    [heatmapPoints |-> heatmapPoints,
     individualNodes |-> mockIndividualNodes,
     maxIntensity |-> INITIAL_MAX_INTENSITY,
     analytics |-> zeroAnalytics,
     error |-> ErrorMessage(err)]

\* the catch block
CatchCommit(err) ==
    [heatmapPoints |-> mockHeatmapPoints,
     individualNodes |-> mockIndividualNodes,
     maxIntensity |-> INITIAL_MAX_INTENSITY,
     analytics |-> zeroAnalytics,
     error |-> ErrorMessage(err)]

\* variant: the cache still served at exactly 600000 ms
UseCache_Inclusive(now, lastFetch, lastData) ==
    /\ Truthy(lastFetch)
    /\ Truthy(lastData)
    /\ now - lastFetch.v <= CACHE_TTL_MS

\* lastFetch && lastData && now - lastFetch < 600000
UseCache(now, lastFetch, lastData) ==
    /\ Truthy(lastFetch)
    /\ Truthy(lastData)
    /\ now - lastFetch.v < CACHE_TTL_MS

\* variant: the cache branch resets the statistics instead of restoring them
CacheHitAnalytics_Reset(lastData) == zeroAnalytics

\* setAnalytics(JSON.parse(lastData))
CacheHitAnalytics(lastData) == JSONparse(lastData)

\* localStorage.getItem(key)
GetItem(key) == localStorage[key]

-----------------------------------------------------------------------------
(* Bounds and inputs *)

MaxLoads == 3
MaxGroups == 3
MaxTtlPeriods == 2

StartTime == 1000 * 1000
MaxClock == StartTime + MaxTtlPeriods * CACHE_TTL_MS
TickSteps == {CACHE_TTL_MS - 1, CACHE_TTL_MS}

\* a raw record of 13 elements, as the API sends it
Raw(version, userAgent, since, country, lat, lon, org) ==
    <<version, userAgent, since, Str(<<"NODE_NETWORK">>), Num(850000), Str(<<"host">>),
      Null, country, lat, lon, Str(<<"UTC">>), Str(<<"AS1">>), org>>

recUS == Arr(Raw(Num(70016), Str(<<"/Satoshi:25.0.0/">>), Num(999), Str(<<"US">>),
                 Num(407128), Num(-740060), Str(<<"Hetzner">>)))
recNearUS == Arr(Raw(Num(70016), Str(<<"/btcd:0.24.0/">>), Num(998), Str(<<"US">>),
                     Num(407306), Num(-739871), Str(<<"OVH">>)))
recDE == Arr(Raw(Num(70015), Str(<<"/Satoshi:24.0.1/">>), Num(999), Str(<<"DE">>),
                 Num(525200), Num(134050), Null) \o <<Null>>)
recNoMeta == Arr(Raw(Num(0), Str(<<>>), Num(0), Null, Num(300), Num(1200), Null))
recNegZero == Arr(Raw(Num(70016), Str(<<"/Knots:26.1/">>), Null, Str(<<"US">>),
                      Num(-400), Num(1200), Str(<<"Hetzner">>)))
recShort == Arr(SubSeq(Raw(Num(70016), Str(<<"/Satoshi:25.0.0/">>), Num(999), Str(<<"US">>),
                           Num(407128), Num(-740060), Null), 1, 12))
recNaN == Arr(Raw(Num(70016), Str(<<"/Satoshi:25.0.0/">>), Num(999), Str(<<"US">>),
                  NaN, Num(-740060), Null))
recStrLon == Arr(Raw(Num(70016), Str(<<"/Satoshi:25.0.0/">>), Num(999), Str(<<"US">>),
                     Num(407128), Str(<<"-74.0060">>), Null))
recNoCoords == Arr(<<Num(70016), Str(<<"/Satoshi:25.0.0/">>)>>)
recNotArray == Str(<<"offline">>)

Group(data, n) == [data |-> data, n |-> n]

\* the groups a snapshot of the aggregation runs is made of
AggGroups ==
    {Group(recUS, 1), Group(recUS, 12), Group(recNearUS, 2), Group(recDE, 1),
     Group(recNoMeta, 1), Group(recNegZero, MAX_NODES_FOR_MARKERS + 1),
     Group(recShort, 1), Group(recNaN, 2), Group(recStrLon, 1), Group(recNoCoords, 1),
     Group(recNotArray, 1)}

\* the groups a snapshot of the life-cycle runs is made of
LifeGroups == {Group(recUS, 1), Group(recShort, 1)}

\* the sequences of at most k distinct groups
RECURSIVE Snapshots(_, _)
Snapshots(groups, k) ==
    IF k = 0 THEN {<<>>}
    ELSE LET shorter == Snapshots(groups, k - 1)
         IN shorter \cup
            {Append(s, g) : s \in {t \in shorter : Len(t) = k - 1},
                            g \in groups} 

Distinct(s) == \A i, j \in DOMAIN s : i # j => s[i] # s[j]

LifeSnapshots == {s \in Snapshots(LifeGroups, MaxGroups) : Distinct(s)}
AggSnapshots == {s \in Snapshots(AggGroups, MaxGroups) : Distinct(s)}

\* snapshots for the top-3 tables: five user agents and four organizations,
\* with equal counts among them
MaxTopGroups == 4

recAWS == Arr(Raw(Num(70016), Str(<<"/bcoin:2.2.0/">>), Num(997), Str(<<"US">>), Num(390438), Num(-774874), Str(<<"AWS">>)))
recComcast == Arr(Raw(Num(70015), Str(<<"/Knots:26.1/">>), Num(996), Str(<<"US">>), Num(399526), Num(-751652), Str(<<"Comcast">>)))

TopGroups ==
    {Group(recUS, 5), Group(recNearUS, 5), Group(recAWS, 3), Group(recComcast, 1),
     Group(recDE, 3), Group(recUS, 2)}

TopSnapshots == {s \in Snapshots(TopGroups, MaxTopGroups) : Distinct(s)}

StatusCodes == {404, 500}
StatusText(status) == IF status = 500 THEN "500" ELSE "404"

NoInvocation == [kind |-> "none"]
NoResponse == [kind |-> "none"]
MalformedText == Str(<<"{">>)

NoRun == [kind |-> "none"]

\* the zoom levels the map is left at: the initial one and the two around the
\* threshold
ZoomLevels == {initialZoom, ZOOM_THRESHOLD - 1, ZOOM_THRESHOLD}

-----------------------------------------------------------------------------
(* The state machine.  A page load mounts the component with the useState  *)
(* defaults; the effect then runs fetchAndProcessNodes up to its first     *)
(* await (the Invoke actions), and the task resumes when the fetch settles *)
(* (the Fetch and Response actions).  A reload abandons the task of the    *)
(* page it replaces.                                                       *)

hookState == <<heatmapPoints, individualNodes, loading, error, maxIntensity, analytics>>

\* variant: the array literal without useMemo, a new array at each render
useMemoNoDeps_NewArray(firstRender, thisRender) == thisRender

\* useMemo(() => [...], []): a later render gets the array of the first render
useMemoNoDeps(firstRender, thisRender) == firstRender

\* [mockHeatmapPoints, mockIndividualNodes] of a later render differs (Object.is)
\* from the list the effect last ran with
EffectDepsChanged == useMemoNoDeps("first render", "this render") # "first render"

\* a render after the first: the effect runs again when a dependency changed
AfterRender(position) == IF EffectDepsChanged THEN "mounted" ELSE position

Init ==
    /\ localStorage = [k \in {LAST_FETCH_KEY, LAST_DATA_KEY} |-> Null]
    /\ clock = StartTime
    /\ pc = "unloaded"
    /\ heatmapPoints = <<>>
    /\ individualNodes = <<>>
    /\ loading = TRUE
    /\ error = Null
    /\ maxIntensity = INITIAL_MAX_INTENSITY
    /\ analytics = zeroAnalytics
    /\ loads = 0
    /\ requests = 0
    /\ invoked = NoInvocation
    /\ response = NoResponse
    /\ tampered = FALSE
    /\ writer = [k \in {LAST_FETCH_KEY, LAST_DATA_KEY} |-> 0]
    /\ currentZoom = initialZoom
    /\ inFlight = 0
    /\ prior = NoRun

\* the page is (re)loaded and the root renders App once; a reload can come at any
\* point of the page before it
RootRender ==
    /\ pc \in {"unloaded", "fetching", "done", "rejected"}
    /\ loads < MaxLoads

\* what a run through the try block of this page leaves for the comparison
\* with a later run
RunRecord ==
    IF pc = "done" /\ response.kind = "ok" /\ response.storage = "stored"
    THEN [kind |-> "run", nodes |-> response.nodes, at |-> response.at,
          heatmapPoints |-> heatmapPoints, individualNodes |-> individualNodes,
          maxIntensity |-> maxIntensity, analytics |-> analytics]
    ELSE prior

\* the component mounts: useState defaults, the effect not yet run; the tasks of
\* the page before are gone with it
Mount ==
    /\ RootRender
    /\ pc' = "mounted"
    /\ currentZoom' = initialZoom
    /\ inFlight' = 0
    /\ prior' = RunRecord
    /\ heatmapPoints' = <<>>
    /\ individualNodes' = <<>>
    /\ loading' = TRUE
    /\ error' = Null
    /\ maxIntensity' = INITIAL_MAX_INTENSITY
    /\ analytics' = zeroAnalytics
    /\ loads' = loads + 1
    /\ requests' = 0
    /\ invoked' = NoInvocation
    /\ response' = NoResponse
    /\ UNCHANGED <<localStorage, clock, tampered, writer>>

\* what the invocation reads before it decides
Reads ==
    [kind |-> "invoked", now |-> clock,
     lastFetch |-> GetItem(LAST_FETCH_KEY), lastData |-> GetItem(LAST_DATA_KEY)]

\* cache hit: setAnalytics(JSON.parse(lastData)); setLoading(false); return
InvokeCacheHit ==
    /\ pc = "mounted"
    /\ UseCache(clock, Number(GetItem(LAST_FETCH_KEY)), GetItem(LAST_DATA_KEY))
    /\ WellFormedJSON(GetItem(LAST_DATA_KEY))
    /\ analytics' = CacheHitAnalytics(GetItem(LAST_DATA_KEY))
    /\ loading' = FALSE
    /\ error' = Null
    /\ pc' = AfterRender("done")
    /\ invoked' = Reads
    /\ UNCHANGED <<localStorage, clock, heatmapPoints, individualNodes, maxIntensity,
                   loads, requests, response, tampered, writer, currentZoom, inFlight,
                   prior>>

\* cache hit on a text JSON.parse rejects: the throw is outside the try block,
\* so the task's promise rejects after setLoading(true) and setError(null)
InvokeCacheHitThrows ==
    /\ pc = "mounted"
    /\ UseCache(clock, Number(GetItem(LAST_FETCH_KEY)), GetItem(LAST_DATA_KEY))
    /\ ~WellFormedJSON(GetItem(LAST_DATA_KEY))
    /\ loading' = TRUE
    /\ error' = Null
    /\ pc' = "rejected"
    /\ invoked' = Reads
    /\ UNCHANGED <<localStorage, clock, heatmapPoints, individualNodes, maxIntensity,
                   analytics, loads, requests, response, tampered, writer, currentZoom,
                   inFlight, prior>>

\* no usable cache: await fetch(BITNODES_API_URL)
InvokeFetch ==
    /\ pc = "mounted"
    /\ ~UseCache(clock, Number(GetItem(LAST_FETCH_KEY)), GetItem(LAST_DATA_KEY))
    /\ loading' = TRUE
    /\ error' = Null
    /\ pc' = "fetching"
    /\ requests' = requests + 1
    /\ inFlight' = inFlight + 1
    /\ invoked' = Reads
    /\ UNCHANGED <<localStorage, clock, heatmapPoints, individualNodes, maxIntensity,
                   analytics, loads, response, tampered, writer, currentZoom, prior>>

\* the catch block, then finally; the fetch of the task has settled
Caught(err) ==
    LET c == CatchCommit(err)
    IN /\ heatmapPoints' = c.heatmapPoints
       /\ individualNodes' = c.individualNodes
       /\ maxIntensity' = c.maxIntensity
       /\ analytics' = c.analytics
       /\ error' = c.error
       /\ loading' = FALSE
       /\ inFlight' = inFlight - 1
       /\ pc' = AfterRender("done")

\* fetch() rejects (no network)
FetchRejects ==
    /\ pc = "fetching"
    /\ Caught(Thrown(TRUE, <<"Failed to fetch">>))
    /\ response' = [kind |-> "network"]
    /\ UNCHANGED <<localStorage, clock, loads, requests, invoked, tampered, writer,
                   currentZoom, prior>>

\* !response.ok: throw new Error(`API Error: ${response.status}`)
ResponseNotOk ==
    /\ pc = "fetching"
    /\ \E status \in StatusCodes :
          /\ Caught(Thrown(TRUE, <<"API Error: ", StatusText(status)>>))
          /\ response' = [kind |-> "status", status |-> status]
    /\ UNCHANGED <<localStorage, clock, loads, requests, invoked, tampered, writer,
                   currentZoom, prior>>

\* response.json() rejects with a SyntaxError
ResponseMalformed ==
    /\ pc = "fetching"
    /\ Caught(Thrown(TRUE, <<"Unexpected token < in JSON at position 0">>))
    /\ response' = [kind |-> "malformed"]
    /\ UNCHANGED <<localStorage, clock, loads, requests, invoked, tampered, writer,
                   currentZoom, prior>>

\* !data?.nodes: throw new Error("Invalid API response structure.")
ResponseWithoutNodes ==
    /\ pc = "fetching"
    /\ Caught(Thrown(TRUE, <<"Invalid API response structure.">>))
    /\ response' = [kind |-> "schema"]
    /\ UNCHANGED <<localStorage, clock, loads, requests, invoked, tampered, writer,
                   currentZoom, prior>>

\* the snapshot is processed and both setItem calls return
ResponseProcessed(snapshots) ==
    /\ pc = "fetching"
    /\ \E nodes \in snapshots :
          LET c == SuccessCommit(nodes, clock)
          IN /\ heatmapPoints' = c.heatmapPoints
             /\ individualNodes' = c.individualNodes
             /\ maxIntensity' = c.maxIntensity
             /\ analytics' = c.analytics
             /\ error' = c.error
             /\ localStorage' = [localStorage EXCEPT
                                   ![LAST_FETCH_KEY] = String(clock),
                                   ![LAST_DATA_KEY] = JSONstringify(c.analytics)]
             /\ response' = [kind |-> "ok", nodes |-> nodes, storage |-> "stored",
                              at |-> clock]
    /\ writer' = [k \in {LAST_FETCH_KEY, LAST_DATA_KEY} |-> loads]
    /\ loading' = FALSE
    /\ inFlight' = inFlight - 1
    /\ pc' = AfterRender("done")
    /\ UNCHANGED <<clock, loads, requests, invoked, tampered, currentZoom, prior>>

\* the snapshot is processed and the first setItem throws (quota, storage disabled)
ResponseFirstWriteThrows(snapshots) ==
    /\ pc = "fetching"
    /\ \E nodes \in snapshots :
          response' = [kind |-> "ok", nodes |-> nodes, storage |-> "first setItem threw"]
    /\ Caught(Thrown(TRUE, <<"The quota has been exceeded.">>))
    /\ UNCHANGED <<localStorage, clock, loads, requests, invoked, tampered, writer,
                   currentZoom, prior>>

\* the snapshot is processed, the timestamp is stored and the second setItem throws
ResponseSecondWriteThrows(snapshots) ==
    /\ pc = "fetching"
    /\ \E nodes \in snapshots :
          response' = [kind |-> "ok", nodes |-> nodes, storage |-> "second setItem threw"]
    /\ localStorage' = [localStorage EXCEPT ![LAST_FETCH_KEY] = String(clock)]
    /\ writer' = [writer EXCEPT ![LAST_FETCH_KEY] = loads]
    /\ Caught(Thrown(TRUE, <<"The quota has been exceeded.">>))
    /\ UNCHANGED <<clock, loads, requests, invoked, tampered, currentZoom, prior>>

\* time passes
Tick ==
    /\ \E d \in TickSteps :
          /\ clock + d <= MaxClock
          /\ clock' = clock + d
    /\ UNCHANGED <<localStorage, pc, hookState, loads, requests, invoked, response,
                   tampered, writer, currentZoom, inFlight, prior>>

\* something else than the task (the user, another script of the origin) leaves a
\* text that is not JSON under the statistics key
StorageTampered ==
    /\ ~tampered
    /\ pc # "mounted"
    /\ localStorage' = [localStorage EXCEPT ![LAST_DATA_KEY] = MalformedText]
    /\ tampered' = TRUE
    /\ UNCHANGED <<clock, pc, hookState, loads, requests, invoked, response, writer,
                   currentZoom, inFlight, prior>>

\* zoomend: setZoom(map.getZoom()); App renders again with the new zoom, and the
\* hook it calls compares the dependencies of its effect
ZoomEnd ==
    /\ pc # "unloaded"
    /\ \E zoom \in ZoomLevels :
          /\ zoom # currentZoom
          /\ currentZoom' = zoom
    /\ pc' = AfterRender(pc)
    /\ UNCHANGED <<localStorage, clock, hookState, loads, requests, invoked, response,
                   tampered, writer, inFlight, prior>>

Next ==
    \/ Mount
    \/ InvokeCacheHit
    \/ InvokeCacheHitThrows
    \/ InvokeFetch
    \/ FetchRejects
    \/ ResponseNotOk
    \/ ResponseMalformed
    \/ ResponseWithoutNodes
    \/ ResponseProcessed(LifeSnapshots)
    \/ ResponseFirstWriteThrows(LifeSnapshots)
    \/ ResponseSecondWriteThrows(LifeSnapshots)
    \/ Tick
    \/ StorageTampered
    \/ ZoomEnd

Spec == Init /\ [][Next]_vars

-----------------------------------------------------------------------------
(* The aggregation alone: the task is suspended at the fetch of a first    *)
(* load over an empty cache, and the fetch settles with a snapshot.        *)

AggInit ==
    /\ localStorage = [k \in {LAST_FETCH_KEY, LAST_DATA_KEY} |-> Null]
    /\ clock \in {StartTime, StartTime + CACHE_TTL_MS}
    /\ pc = "fetching"
    /\ heatmapPoints = <<>>
    /\ individualNodes = <<>>
    /\ loading = TRUE
    /\ error = Null
    /\ maxIntensity = INITIAL_MAX_INTENSITY
    /\ analytics = zeroAnalytics
    /\ loads = 1
    /\ requests = 1
    /\ invoked = [kind |-> "invoked", now |-> clock, lastFetch |-> Null, lastData |-> Null]
    /\ response = NoResponse
    /\ tampered = FALSE
    /\ writer = [k \in {LAST_FETCH_KEY, LAST_DATA_KEY} |-> 0]
    /\ currentZoom = initialZoom
    /\ inFlight = 1
    /\ prior = NoRun

AggNext == ResponseProcessed(AggSnapshots)

AggSpec == AggInit /\ [][AggNext]_vars

-----------------------------------------------------------------------------
(* The top-3 tables: the same step on the snapshots with many distinct user *)
(* agents and organizations.                                               *)

TopNext == ResponseProcessed(TopSnapshots)

TopSpec == AggInit /\ [][TopNext]_vars

-----------------------------------------------------------------------------
(* What App renders on the map *)

showHeatmap == ~loading /\ currentZoom < ZOOM_THRESHOLD

showMarkers == ~loading /\ currentZoom >= ZOOM_THRESHOLD

\* {showHeatmap && heatmapPoints.length > 0 && <HeatmapLayer ... />}
HeatmapLayerRendered == showHeatmap /\ Len(heatmapPoints) > 0

\* {showMarkers && individualNodes.length > 0 && <NodeMarkersLayer ... />}
NodeMarkersLayerRendered == showMarkers /\ ListLen(individualNodes) > 0

-----------------------------------------------------------------------------

(* Vocabulary of the properties *)

\* the task ran to its end through the try block
Succeeded == pc = "done" /\ response.kind = "ok" /\ response.storage = "stored"

\* the task ran to its end through the catch block
Failed ==
    /\ pc = "done"
    /\ \/ response.kind \in {"network", "status", "malformed", "schema"}
       \/ response.kind = "ok" /\ response.storage # "stored"

\* the task returned from the cache branch
ServedFromCache == pc = "done" /\ invoked.kind = "invoked" /\ requests = 0

FallbackState ==
    /\ heatmapPoints = mockHeatmapPoints
    /\ Len(heatmapPoints) = 4
    /\ individualNodes = mockIndividualNodes
    /\ ListLen(individualNodes) = 2
    /\ individualNodes[1].node.country = Str(<<"US">>)
    /\ individualNodes[2].node.country = Str(<<"GB">>)
    /\ analytics = [totalNodes |-> 0, uniqueCountries |-> 0]
    /\ error # Null

RECURSIVE SumCounts(_)
SumCounts(points) == IF points = <<>> THEN 0 ELSE points[1][3] + SumCounts(Tail(points))

RECURSIVE MaxCount(_)
MaxCount(points) == IF points = <<>> THEN 0 ELSE Max(points[1][3], MaxCount(Tail(points)))

RECURSIVE SumSeq(_)
SumSeq(s) == IF s = <<>> THEN 0 ELSE s[1] + SumSeq(Tail(s))

\* the number of records of a snapshot that satisfy P
CountRecords(nodes, P(_)) ==
    SumSeq([i \in DOMAIN nodes |-> IF P(nodes[i].data) THEN nodes[i].n ELSE 0])

NumericAt(data, i) == Len(data.v) > i /\ data.v[i + 1].t = "number"

\* the validity rule with "more than 12 elements"
PassesFilter(data) ==
    data.t = "array" /\ Len(data.v) > 12 /\ NumericAt(data, 8) /\ NumericAt(data, 9)

\* the validity rule as the data model states it: "more than 13 elements"
StatedValid(data) ==
    data.t = "array" /\ Len(data.v) > 13 /\ NumericAt(data, 8) /\ NumericAt(data, 9)

-----------------------------------------------------------------------------
C1_WitnessExpired ==
    /\ invoked.kind = "invoked"
    /\ requests = 1
    /\ invoked.lastFetch # Null
    /\ invoked.lastData # Null
    /\ invoked.now - DigitsValue(invoked.lastFetch.v) = 600000

(* C2: a cache hit sets the statistics to what the cached text holds and   *)
(* leaves the heatmap points, the marker peers, the intensity ceiling and   *)
(* both cache keys as they were.                                           *)
C2_CacheHitFrame ==
    [][(pc = "mounted" /\ pc' = "done") =>
          /\ JSONstringify(analytics') = localStorage[LAST_DATA_KEY]
          /\ heatmapPoints' = heatmapPoints
          /\ individualNodes' = individualNodes
          /\ maxIntensity' = maxIntensity
          /\ localStorage' = localStorage]_vars

\* a cache hit that served the statistics of a non-empty snapshot
C2_Witness == ServedFromCache /\ analytics.totalNodes > 0

(* C3: a task that fails (non-success status, body without the peer map,   *)
(* rejected fetch or body, exception while persisting) ends with the four  *)
(* mock points, the two mock peers, zeroed statistics and an error message.*)
C3_FailureFallback == Failed => FallbackState

\* an HTTP 500 answered with the fallback, on a page whose cache held statistics
C3_Witness ==
    /\ Failed
    /\ response.kind = "status"
    /\ response.status = 500
    /\ error = Str(<<"API Error: ", "500">>)

\* a failed cache write after the snapshot was processed
C3_WitnessPersist == Failed /\ response.kind = "ok" /\ ListLen(individualNodes) = 2

(* C4: no error escapes the task as a thrown value: the task always        *)
(* completes normally, and an error ends in the fallback state with its    *)
(* message displayed.                                                      *)
C4_NoErrorEscapes ==
    /\ pc # "rejected"
    /\ (pc = "done" /\ error # Null) => FallbackState

(* C5: starting from an empty cache that only the task writes, the two     *)
(* cache keys are always paired: both were last written by the same run.   *)
C5_KeysPaired ==
    ~tampered => writer[LAST_FETCH_KEY] = writer[LAST_DATA_KEY]

(* C6: after a successful run the peer list handed to marker rendering has *)
(* at most 10,000 entries.                                                 *)
C6_MarkerCap == Succeeded => ListLen(individualNodes) <= 10000

(* C7, as stated: a record that does not have more than 13 elements (or    *)
(* whose coordinates are not numbers) yields no peer.                      *)
C7_StatedRuleDrops ==
    Succeeded => analytics.totalNodes <= CountRecords(response.nodes, StatedValid)

\* a group of records that pass the filter
KeptGroup(g) == PassesFilter(g.data)

(* C7, amended: exactly the records that are arrays of more than 12        *)
(* elements with numeric, non-NaN coordinates yield a peer; every other    *)
(* record yields none and adds to no statistic and to no density cell:     *)
(* the run commits what it would commit for the snapshot without them.     *)
C7_InvalidDropped ==
    Succeeded =>
        LET kept == CountRecords(response.nodes, PassesFilter)
            without == SuccessCommit(SelectSeq(response.nodes, KeptGroup),
                                     DigitsValue(localStorage[LAST_FETCH_KEY].v))
        IN /\ analytics.totalNodes = kept
           /\ kept > 0 => SumCounts(heatmapPoints) = kept /\ ListLen(individualNodes) = kept
           /\ kept = 0 =>
                 /\ analytics.uniqueCountries = 0
                 /\ analytics.topUserAgents = <<>>
                 /\ analytics.topOrganizations = <<>>
                 /\ analytics.protocolVersions = <<>>
                 /\ heatmapPoints = mockHeatmapPoints
           /\ analytics = without.analytics
           /\ heatmapPoints = without.heatmapPoints
           /\ individualNodes = without.individualNodes
           /\ maxIntensity = without.maxIntensity

\* a 12-element record dropped next to a 13-element record kept
C7_Witness ==
    /\ Succeeded
    /\ response.nodes = <<Group(recShort, 1), Group(recUS, 1)>>
    /\ analytics.totalNodes = 1

(* C8, as stated: for every accepted snapshot the counts of the cells      *)
(* output for the heatmap sum to the total peer count.                     *)
C8_CountsSumToTotal == Succeeded => SumCounts(heatmapPoints) = analytics.totalNodes

(* C8, amended: for every accepted snapshot with at least one valid record *)
(* the counts of the output cells sum to the length of the untruncated     *)
(* peer list, which is the reported total; with no valid record the output *)
(* is the four mock points and the total is 0.                             *)
C8_CountsSumWhenAggregated ==
    Succeeded =>
        LET kept == CountRecords(response.nodes, PassesFilter)
        IN /\ analytics.totalNodes = kept
           /\ IF kept > 0
              THEN SumCounts(heatmapPoints) = kept
              ELSE heatmapPoints = mockHeatmapPoints

\* three peers of two different coordinates collapsed into one cell
C8_Witness ==
    /\ Succeeded
    /\ analytics.totalNodes = 3
    /\ Len(heatmapPoints) = 1
    /\ Len(individualNodes) = 2

\* c is the ceiling of 0.8 * m
IsCeilOfFourFifths(c, m) == 5 * c >= 4 * m /\ 5 * (c - 1) < 4 * m

(* C9, as stated: after a successful run the intensity ceiling is          *)
(* max(1, ceil(0.8 * M)), M the largest count among the cells output.      *)
C9_CeilingOfOutput ==
    Succeeded =>
        /\ maxIntensity >= 1
        /\ IsCeilOfFourFifths(maxIntensity, MaxCount(heatmapPoints))

(* C9, amended: the ceiling is max(1, ceil(0.8 * M)) when the output cells *)
(* are the aggregated ones; when the mock points are substituted in a      *)
(* successful run it is 1.                                                 *)
C9_CeilingOfAggregated ==
    Succeeded =>
        IF analytics.totalNodes > 0
        THEN /\ maxIntensity >= 1
             /\ IsCeilOfFourFifths(maxIntensity, MaxCount(heatmapPoints))
        ELSE maxIntensity = 1 /\ heatmapPoints = mockHeatmapPoints

\* M = 12 gives 10
C9_Witness == Succeeded /\ MaxCount(heatmapPoints) = 12 /\ maxIntensity = 10

\* M = 1 gives 1
C9_WitnessOne ==
    Succeeded /\ analytics.totalNodes > 0 /\ MaxCount(heatmapPoints) = 1 /\ maxIntensity = 1

(* C10: the concentration score is a number between 0 and 1, and it is 0   *)
(* when there is no peer.                                                  *)
C10_ScoreBounds ==
    Succeeded =>
        LET score == analytics.decentralizationScore
        IN /\ score.den > 0
           /\ 0 <= score.num
           /\ score.num <= score.den
           /\ analytics.totalNodes = 0 => score.num = 0

\* two countries with one peer each: 0.5
C10_Witness ==
    /\ Succeeded
    /\ analytics.totalNodes = 2
    /\ analytics.uniqueCountries = 2
    /\ 2 * analytics.decentralizationScore.num = analytics.decentralizationScore.den

\* a score of 0 for a snapshot without a valid record
C10_WitnessEmpty ==
    /\ Succeeded
    /\ analytics.totalNodes = 0
    /\ response.nodes # <<>>
    /\ analytics.decentralizationScore.num = 0

-----------------------------------------------------------------------------
(* C11: for a snapshot with at least one valid peer the concentration      *)
(* score equals 1 exactly when all peers share one country; when the peers *)
(* that have a country all have the same one and some peer has none, one   *)
(* distinct country is reported, the peers without a country do not share  *)
(* it, and the score is below 1.                                           *)

\* the country field of a record that passes the filter
CountryOf(data) == data.v[8]

HasCountry(data) ==
    PassesFilter(data) /\ CountryOf(data).t = "string" /\ CountryOf(data).v # <<>>

\* every valid peer of the snapshot has the same country
AllShareOneCountry(nodes) ==
    \E i \in DOMAIN nodes :
        /\ HasCountry(nodes[i].data)
        /\ \A j \in DOMAIN nodes :
              PassesFilter(nodes[j].data) => CountryOf(nodes[j].data) = CountryOf(nodes[i].data)

\* the peers with a country share it, and some valid peer has a null country
OneCountryAndNulls(nodes) ==
    /\ \E i \in DOMAIN nodes : PassesFilter(nodes[i].data) /\ CountryOf(nodes[i].data) = Null
    /\ \E i \in DOMAIN nodes :
          /\ HasCountry(nodes[i].data)
          /\ \A j \in DOMAIN nodes :
                HasCountry(nodes[j].data) => CountryOf(nodes[j].data) = CountryOf(nodes[i].data)

C11_OneIffOneCountry ==
    (Succeeded /\ analytics.totalNodes > 0) =>
        LET score == analytics.decentralizationScore
        IN /\ score.num = score.den <=> AllShareOneCountry(response.nodes)
           /\ OneCountryAndNulls(response.nodes) =>
                 /\ analytics.uniqueCountries = 1
                 /\ ~AllShareOneCountry(response.nodes)
                 /\ score.num < score.den

\* thirteen peers in one country: score 1
C11_Witness ==
    /\ Succeeded
    /\ analytics.totalNodes = 13
    /\ AllShareOneCountry(response.nodes)
    /\ analytics.decentralizationScore.num = analytics.decentralizationScore.den

\* one peer in the US and one without a country: one country reported, score 1/4
C11_WitnessNullCountry ==
    /\ Succeeded
    /\ analytics.totalNodes = 2
    /\ OneCountryAndNulls(response.nodes)
    /\ analytics.uniqueCountries = 1
    /\ 4 * analytics.decentralizationScore.num = analytics.decentralizationScore.den

-----------------------------------------------------------------------------
(* C12: the top user agents and the top organizations are each the first 3 *)
(* entries (all of them when fewer distinct values exist) of the frequency *)
(* table ordered by count descending, equal counts in order of first       *)
(* encounter in the snapshot; counts A:5, B:5, C:3, D:1 met in that order  *)
(* give [A, B, C] with counts [5, 5, 3].                                   *)

\* the field at zero-based position i of a record that passes the filter
FieldOf(data, i) == data.v[i + 1]

\* the record adds to the frequency table of field i
Counted(data, i) == PassesFilter(data) /\ Truthy(FieldOf(data, i))

TableValues(nodes, i) ==
    {FieldOf(nodes[k].data, i) : k \in {j \in DOMAIN nodes : Counted(nodes[j].data, i)}}

Frequency(nodes, i, value) ==
    SumSeq([k \in DOMAIN nodes |->
              IF Counted(nodes[k].data, i) /\ FieldOf(nodes[k].data, i) = value
              THEN nodes[k].n ELSE 0])

FirstEncounter(nodes, i, value) ==
    CHOOSE k \in DOMAIN nodes :
        /\ Counted(nodes[k].data, i) /\ FieldOf(nodes[k].data, i) = value
        /\ \A j \in 1..(k - 1) :
              ~(Counted(nodes[j].data, i) /\ FieldOf(nodes[j].data, i) = value)

RanksBefore(nodes, i, a, b) ==
    \/ Frequency(nodes, i, a) > Frequency(nodes, i, b)
    \/ /\ Frequency(nodes, i, a) = Frequency(nodes, i, b)
       /\ FirstEncounter(nodes, i, a) < FirstEncounter(nodes, i, b)

\* values and counts are the first 3 of the table of field i in rank order
IsTopThree(values, counts, nodes, i) ==
    /\ Len(values) = Min(3, Cardinality(TableValues(nodes, i)))
    /\ \A k \in DOMAIN values :
          /\ values[k] \in TableValues(nodes, i)
          /\ counts[k] = Frequency(nodes, i, values[k])
    /\ \A k, l \in DOMAIN values : k < l => RanksBefore(nodes, i, values[k], values[l])
    /\ \A v \in TableValues(nodes, i) :
          (\A k \in DOMAIN values : values[k] # v) =>
              \A k \in DOMAIN values : RanksBefore(nodes, i, values[k], v)

C12_TopThree ==
    Succeeded =>
        LET agents == analytics.topUserAgents
            orgs == analytics.topOrganizations
        IN /\ IsTopThree([k \in DOMAIN agents |-> agents[k].agent],
                         [k \in DOMAIN agents |-> agents[k].count], response.nodes, 1)
           /\ IsTopThree([k \in DOMAIN orgs |-> orgs[k].org],
                         [k \in DOMAIN orgs |-> orgs[k].count], response.nodes, 12)

\* A:5, B:5, C:3, D:1 in that order: [A, B, C] with [5, 5, 3], for both tables
C12_Witness ==
    /\ Succeeded
    /\ response.nodes = <<Group(recUS, 5), Group(recNearUS, 5), Group(recAWS, 3),
                          Group(recComcast, 1)>>
    /\ analytics.topUserAgents =
          <<[agent |-> Str(<<"/Satoshi:25.0.0/">>), count |-> 5],
            [agent |-> Str(<<"/btcd:0.24.0/">>), count |-> 5],
            [agent |-> Str(<<"/bcoin:2.2.0/">>), count |-> 3]>>
    /\ analytics.topOrganizations =
          <<[org |-> Str(<<"Hetzner">>), count |-> 5],
            [org |-> Str(<<"OVH">>), count |-> 5],
            [org |-> Str(<<"AWS">>), count |-> 3]>>

\* the same counts met in another order: the tie goes to the value met first,
\* and a value met again later keeps its first place
C12_WitnessEncounterOrder ==
    /\ Succeeded
    /\ response.nodes = <<Group(recDE, 3), Group(recUS, 2), Group(recAWS, 3),
                          Group(recUS, 5)>>
    /\ analytics.topUserAgents =
          <<[agent |-> Str(<<"/Satoshi:25.0.0/">>), count |-> 7],
            [agent |-> Str(<<"/Satoshi:24.0.1/">>), count |-> 3],
            [agent |-> Str(<<"/bcoin:2.2.0/">>), count |-> 3]>>
    /\ analytics.topOrganizations =
          <<[org |-> Str(<<"Hetzner">>), count |-> 7], [org |-> Str(<<"AWS">>), count |-> 3]>>

-----------------------------------------------------------------------------
(* C13: processing the same raw snapshot twice, at different clock times,  *)
(* yields identical density cells, identical statistics (mean uptime       *)
(* included) and identical peer lists, order included.                     *)

\* this load's run processed the snapshot that the last run of an earlier load
\* processed
SameSnapshotAgain == Succeeded /\ prior.kind = "run" /\ prior.nodes = response.nodes

TimelessStatistics(a) == [k \in DOMAIN a \ {"averageUptime"} |-> a[k]]

-----------------------------------------------------------------------------
-----------------------------------------------------------------------------
(* C15: each frequency table is incremented once per valid peer whose      *)
(* value for the field is anything other than absent or null, so the sum   *)
(* of a table's counts is the number of valid peers with a non-null value  *)
(* in the field; a protocol version 0 and an empty user-agent string are   *)
(* counted.                                                                *)

NonNull(x) == x.t \notin {"null", "undefined"}

\* the number of valid peers of the snapshot with a non-null field i
PresentCount(nodes, i) ==
    CountRecords(nodes, LAMBDA d : PassesFilter(d) /\ NonNull(FieldOf(d, i)))

SumEntries(table) == SumSeq([k \in DOMAIN table |-> table[k].count])

\* the protocol versions are reported whole; the user agents and organizations
\* are reported whole when fewer than 3 are reported
C15_TablesCountPresentValues ==
    Succeeded =>
        /\ SumEntries(analytics.protocolVersions) = PresentCount(response.nodes, 0)
        /\ Len(analytics.topUserAgents) < 3 =>
              SumEntries(analytics.topUserAgents) = PresentCount(response.nodes, 1)
        /\ Len(analytics.topOrganizations) < 3 =>
              SumEntries(analytics.topOrganizations) = PresentCount(response.nodes, 12)

-----------------------------------------------------------------------------
(* C16: the mean uptime is the average of (now in seconds - connection     *)
(* start) / 86400 over exactly the valid peers whose connection start is   *)
(* present, a present value of 0 included, and it is 0 when no peer has a  *)
(* known connection start.                                                 *)

\* the uptimes, in ms, of the valid peers with a present connection start, summed
PresentUptime(nodes, now) ==
    SumSeq([k \in DOMAIN nodes |->
              IF PassesFilter(nodes[k].data) /\ NonNull(FieldOf(nodes[k].data, 2))
              THEN nodes[k].n * (now - 1000 * FieldOf(nodes[k].data, 2).v)
              ELSE 0])

C16_MeanOverPresentStarts ==
    Succeeded =>
        LET mean == analytics.averageUptime
            present == PresentCount(response.nodes, 2)
        IN IF present = 0
           THEN mean.num = 0
           ELSE /\ mean.num = PresentUptime(response.nodes, response.at)
                /\ mean.den = present
                /\ mean.msPerUnit = 1000 * SECONDS_PER_DAY

-----------------------------------------------------------------------------
(* C17: when the fetch succeeds and the snapshot holds no valid record,    *)
(* the heatmap points are the four mock points and the marker peers the    *)
(* two mock peers, and the run is still a success: the error stays null,   *)
(* the statistics are those of the empty peer list (total 0) and they are  *)
(* written to the cache with a new timestamp.                              *)

NoValidRecord(nodes) == CountRecords(nodes, PassesFilter) = 0

\* the statistics of an empty peer list
EmptyStatistics(a) ==
    /\ DOMAIN a = {"totalNodes", "uniqueCountries", "topUserAgents", "topOrganizations",
                   "protocolVersions", "averageUptime", "decentralizationScore"}
    /\ a.totalNodes = 0
    /\ a.uniqueCountries = 0
    /\ a.topUserAgents = <<>>
    /\ a.topOrganizations = <<>>
    /\ a.protocolVersions = <<>>
    /\ a.averageUptime.num = 0
    /\ a.decentralizationScore.num = 0

C17_EmptySnapshotSucceeds ==
    (Succeeded /\ NoValidRecord(response.nodes)) =>
        /\ heatmapPoints = mockHeatmapPoints
        /\ Len(heatmapPoints) = 4
        /\ individualNodes = mockIndividualNodes
        /\ ListLen(individualNodes) = 2
        /\ error = Null
        /\ loading = FALSE
        /\ EmptyStatistics(analytics)
        /\ \A k \in DOMAIN writer : writer[k] = loads
        /\ localStorage[LAST_FETCH_KEY] = String(response.at)
        /\ response.at >= invoked.now
        /\ localStorage[LAST_DATA_KEY] \in {JSONstringify(analytics), MalformedText}
        /\ localStorage[LAST_DATA_KEY] = MalformedText => tampered

\* a snapshot of one record with 12 elements, fetched by a load that found an
\* expired timestamp: mocks on the map, no error, a newer timestamp in the cache
C17_Witness ==
    /\ Succeeded
    /\ response.nodes = <<Group(recShort, 1)>>
    /\ heatmapPoints = mockHeatmapPoints
    /\ individualNodes = mockIndividualNodes
    /\ error = Null
    /\ invoked.lastFetch # Null
    /\ Number(localStorage[LAST_FETCH_KEY]).v > Number(invoked.lastFetch).v
    /\ localStorage[LAST_DATA_KEY] = JSONstringify(analytics)

-----------------------------------------------------------------------------
(* C18: the identity of a density cell is its rounded coordinate pair: no  *)
(* two cells produced from a snapshot have numerically equal latitude and  *)
(* longitude, also for peers whose coordinates round to zero from the      *)
(* negative and from the positive side.                                    *)
C18_CellsDistinct ==
    (Succeeded /\ analytics.totalNodes > 0) =>
        \A i, j \in DOMAIN heatmapPoints :
            i # j => <<heatmapPoints[i][1], heatmapPoints[i][2]>>
                     # <<heatmapPoints[j][1], heatmapPoints[j][2]>>

-----------------------------------------------------------------------------
(* C19: after every completed load (success, failure or cache hit) the     *)
(* heatmap points in state are the density cells aggregated from the       *)
(* load's own fetch or the four mock points; they are not taken from the   *)
(* cache and not left as the empty initial list.                           *)
C19_PointsAfterLoad ==
    pc = "done" =>
        \/ heatmapPoints = mockHeatmapPoints
        \/ /\ Succeeded
           /\ heatmapPoints # <<>>
           /\ SumCounts(heatmapPoints) = CountRecords(response.nodes, PassesFilter)

-----------------------------------------------------------------------------
(* C20: every invocation of the task that ran to its end, by returning or  *)
(* by throwing, has set the loading flag to false: on a cache hit (the     *)
(* cached text unparsable or not), after a fetch that succeeded and after  *)
(* a fetch that failed.                                                    *)
C20_LoadingCleared == pc \in {"done", "rejected"} => loading = FALSE

-----------------------------------------------------------------------------
(* C21: the heatmap layer and the marker layer are never displayed         *)
(* together and neither is displayed while loading is true; once loading   *)
(* is false the heatmap is the layer for zoom < 9 and the markers for      *)
(* zoom >= 9, and after a completed load the layer of the current zoom has *)
(* data to display: exactly one layer is visible.                          *)

\* the part about which layer can be displayed
LayersExclusive ==
    /\ ~(HeatmapLayerRendered /\ NodeMarkersLayerRendered)
    /\ loading => ~HeatmapLayerRendered /\ ~NodeMarkersLayerRendered
    /\ HeatmapLayerRendered => currentZoom < ZOOM_THRESHOLD
    /\ NodeMarkersLayerRendered => currentZoom >= ZOOM_THRESHOLD

C21_ExactlyOneLayer ==
    /\ LayersExclusive
    /\ pc = "done" =>
          /\ ~loading
          /\ currentZoom < ZOOM_THRESHOLD => HeatmapLayerRendered
          /\ currentZoom >= ZOOM_THRESHOLD => NodeMarkersLayerRendered

=============================================================================
